---- MODULE Spec2Model ----
(***************************************************************************)
(* Model of setup.py of pyqubo: the CMake build driver                     *)
(* (CMakeBuild.build_extension), the table PLAT_TO_CMAKE it consults, and  *)
(* the two test commands (GoogleTestCommand.run, PyTestCommand.run).       *)
(*                                                                         *)
(* Python strings that the code searches, concatenates, upper-cases or     *)
(* parses are sequences of one-character strings, so that `x in s`,        *)
(* str.endswith, str.upper, str.format, str.join and re.findall are        *)
(* computed character by character.  Strings that are only compared for    *)
(* equality (compiler_type, the position pc, exception names) are TLA+     *)
(* strings.                                                                *)
(*                                                                         *)
(* A blocking subprocess call is two steps: the step that issues it (the   *)
(* command is appended to calls) and the step in which it returns with an  *)
(* exit status chosen by the environment (appended to returncodes).        *)
(*                                                                         *)
(* The methods are modelled as they are written.  GoogleTestCommand.run is *)
(* modelled from its entry, with self.cpplibdir given: initialize_options, *)
(* which is to compute it, refers to sysconfig, a name that setup.py does  *)
(* not import (and lines 123-135 of the class are indented by three       *)
(* columns, which Python rejects when it compiles the file).               *)
(***************************************************************************)
EXTENDS Integers, Sequences, FiniteSets, TLC

(***************************************************************************)
(* Bounds of the model.                                                    *)
(***************************************************************************)
\* the longest list of -arch values put into ARCHFLAGS
MaxArchs == 2
\* the largest job count given with build_ext -j
MaxJobs == 2
\* the largest exit status a subprocess returns
MaxExit == 1

(***************************************************************************)
(* String literals of setup.py and of the inputs, as character sequences.  *)
(***************************************************************************)
\* ''
s_empty == <<>>
\* 'win32'
s_win32 == <<"w", "i", "n", "3", "2">>
\* 'win-amd64'
s_win_amd64 == <<"w", "i", "n", "-", "a", "m", "d", "6", "4">>
\* 'win-arm32'
s_win_arm32 == <<"w", "i", "n", "-", "a", "r", "m", "3", "2">>
\* 'win-arm64'
s_win_arm64 == <<"w", "i", "n", "-", "a", "r", "m", "6", "4">>
\* 'Win32'
s_Win32 == <<"W", "i", "n", "3", "2">>
\* 'x64'
s_x64 == <<"x", "6", "4">>
\* 'ARM'
s_ARM == <<"A", "R", "M">>
\* 'ARM64'
s_ARM64 == <<"A", "R", "M", "6", "4">>
\* 'win-ia64'
s_win_ia64 == <<"w", "i", "n", "-", "i", "a", "6", "4">>
\* 'linux-x86_64'
s_linux_x86_64 == <<"l", "i", "n", "u", "x", "-", "x", "8", "6", "_", "6",
    "4">>
\* 'macosx-11.0-arm64'
s_macosx == <<"m", "a", "c", "o", "s", "x", "-", "1", "1", ".", "0", "-",
    "a", "r", "m", "6", "4">>
\* 'Debug'
s_Debug == <<"D", "e", "b", "u", "g">>
\* 'Release'
s_Release == <<"R", "e", "l", "e", "a", "s", "e">>
\* '-DCMAKE_LIBRARY_OUTPUT_DIRECTORY='
s_D_LIBRARY_OUTPUT_DIRECTORY == <<"-", "D", "C", "M", "A", "K", "E", "_",
    "L", "I", "B", "R", "A", "R", "Y", "_", "O", "U", "T", "P", "U", "T",
    "_", "D", "I", "R", "E", "C", "T", "O", "R", "Y", "=">>
\* '-DPYTHON_EXECUTABLE='
s_D_PYTHON_EXECUTABLE == <<"-", "D", "P", "Y", "T", "H", "O", "N", "_", "E",
    "X", "E", "C", "U", "T", "A", "B", "L", "E", "=">>
\* '-DPYQUBO_VERSION_INFO='
s_D_PYQUBO_VERSION_INFO == <<"-", "D", "P", "Y", "Q", "U", "B", "O", "_",
    "V", "E", "R", "S", "I", "O", "N", "_", "I", "N", "F", "O", "=">>
\* '-DCMAKE_BUILD_TYPE='
s_D_BUILD_TYPE == <<"-", "D", "C", "M", "A", "K", "E", "_", "B", "U", "I",
    "L", "D", "_", "T", "Y", "P", "E", "=">>
\* '-GNinja'
s_GNinja == <<"-", "G", "N", "i", "n", "j", "a">>
\* 'NMake'
s_NMake == <<"N", "M", "a", "k", "e">>
\* 'Ninja'
s_Ninja == <<"N", "i", "n", "j", "a">>
\* 'Win64'
s_Win64 == <<"W", "i", "n", "6", "4">>
\* '-A'
s_A == <<"-", "A">>
\* '-DCMAKE_LIBRARY_OUTPUT_DIRECTORY_'
s_D_LIBRARY_OUTPUT_DIRECTORY_ == <<"-", "D", "C", "M", "A", "K", "E", "_",
    "L", "I", "B", "R", "A", "R", "Y", "_", "O", "U", "T", "P", "U", "T",
    "_", "D", "I", "R", "E", "C", "T", "O", "R", "Y", "_">>
\* '='
s_eq == <<"=">>
\* '--config'
s_config == <<"-", "-", "c", "o", "n", "f", "i", "g">>
\* 'True'
s_True == <<"T", "r", "u", "e">>
\* 'False'
s_False == <<"F", "a", "l", "s", "e">>
\* '1'
s_one == <<"1">>
\* '-DUSE_OMP=No'
s_D_USE_OMP_No == <<"-", "D", "U", "S", "E", "_", "O", "M", "P", "=", "N",
    "o">>
\* '-arch '
s_arch_sp == <<"-", "a", "r", "c", "h", " ">>
\* '-DCMAKE_OSX_ARCHITECTURES='
s_D_OSX_ARCHITECTURES == <<"-", "D", "C", "M", "A", "K", "E", "_", "O", "S",
    "X", "_", "A", "R", "C", "H", "I", "T", "E", "C", "T", "U", "R", "E",
    "S", "=">>
\* ';'
s_semicolon == <<";">>
\* ' '
s_space == <<" ">>
\* '-j'
s_j == <<"-", "j">>
\* 'cmake'
s_cmake == <<"c", "m", "a", "k", "e">>
\* '--build'
s_build_opt == <<"-", "-", "b", "u", "i", "l", "d">>
\* '.'
s_dot == <<".">>
\* 'make pyqubo_test'
s_make_pyqubo_test == <<"m", "a", "k", "e", " ", "p", "y", "q", "u", "b",
    "o", "_", "t", "e", "s", "t">>
\* './tests/pyqubo_test'
s_tests_pyqubo_test == <<".", "/", "t", "e", "s", "t", "s", "/", "p", "y",
    "q", "u", "b", "o", "_", "t", "e", "s", "t">>
\* 'build'
s_build == <<"b", "u", "i", "l", "d">>
\* 'build/'
s_build_slash == <<"b", "u", "i", "l", "d", "/">>
\* 'NMake Makefiles'
s_gen_NMake == <<"N", "M", "a", "k", "e", " ", "M", "a", "k", "e", "f", "i",
    "l", "e", "s">>
\* 'Visual Studio 16 2019'
s_gen_VS == <<"V", "i", "s", "u", "a", "l", " ", "S", "t", "u", "d", "i",
    "o", " ", "1", "6", " ", "2", "0", "1", "9">>
\* 'Visual Studio 15 2017 Win64'
s_gen_VS_Win64 == <<"V", "i", "s", "u", "a", "l", " ", "S", "t", "u", "d",
    "i", "o", " ", "1", "5", " ", "2", "0", "1", "7", " ", "W", "i", "n",
    "6", "4">>
\* 'Visual Studio 14 2015 ARM'
s_gen_VS_ARM == <<"V", "i", "s", "u", "a", "l", " ", "S", "t", "u", "d", "i",
    "o", " ", "1", "4", " ", "2", "0", "1", "5", " ", "A", "R", "M">>
\* 'x86_64'
s_x86_64 == <<"x", "8", "6", "_", "6", "4">>
\* 'arm64'
s_arm64 == <<"a", "r", "m", "6", "4">>
\* 'python'
s_python == <<"p", "y", "t", "h", "o", "n">>
\* '1.0'
s_version == <<"1", ".", "0">>
\* 'src'
s_src == <<"s", "r", "c">>
\* '/b'
s_posix_dir == <<"/", "b">>
\* '/'
s_posix_root == <<"/">>
\* 'C:\\b'
s_nt_dir == <<"C", ":", "\\", "b">>
\* 'C:\\'
s_nt_root == <<"C", ":", "\\">>
\* '/'
s_slash == <<"/">>
\* '\\'
s_backslash == <<"\\">>
\* 'temp.linux-x86_64-3.8'
s_temp_a == <<"t", "e", "m", "p", ".", "l", "i", "n", "u", "x", "-", "x",
    "8", "6", "_", "6", "4", "-", "3", ".", "8">>
\* 'temp.macosx-11.0-arm64-3.9'
s_temp_b == <<"t", "e", "m", "p", ".", "m", "a", "c", "o", "s", "x", "-",
    "1", "1", ".", "0", "-", "a", "r", "m", "6", "4", "-", "3", ".", "9">>
\* 'darwin'
s_darwin == <<"d", "a", "r", "w", "i", "n">>
\* 'linux'
s_linux == <<"l", "i", "n", "u", "x">>
\* 'build/temp'
s_build_temp == <<"b", "u", "i", "l", "d", "/", "t", "e", "m", "p">>
\* 'yes'
s_yes == <<"y", "e", "s">>
\* '\nPython tests complete, now running C++ tests...\n'
s_banner == <<"\n", "P", "y", "t", "h", "o", "n", " ", "t", "e", "s", "t",
    "s", " ", "c", "o", "m", "p", "l", "e", "t", "e", ",", " ", "n", "o",
    "w", " ", "r", "u", "n", "n", "i", "n", "g", " ", "C", "+", "+", " ",
    "t", "e", "s", "t", "s", ".", ".", ".", "\n">>

(***************************************************************************)
(* String operations of Python, computed on character sequences.           *)
(***************************************************************************)
ascii_lowercase == <<"a", "b", "c", "d", "e", "f", "g", "h", "i", "j", "k",
    "l", "m", "n", "o", "p", "q", "r", "s", "t", "u", "v", "w", "x", "y", "z">>
ascii_uppercase == <<"A", "B", "C", "D", "E", "F", "G", "H", "I", "J", "K",
    "L", "M", "N", "O", "P", "Q", "R", "S", "T", "U", "V", "W", "X", "Y", "Z">>
digits == <<"0", "1", "2", "3", "4", "5", "6", "7", "8", "9">>
\* the characters the regular expression class \S excludes
whitespace == {" ", "\t", "\n", "\r", "\f"}

\* s[i:].startswith(p), i counted from 1
startswith_at(s, i, p) ==
    /\ i + Len(p) - 1 <= Len(s)
    /\ SubSeq(s, i, i + Len(p) - 1) = p

\* s.startswith(p)
startswith(s, p) == startswith_at(s, 1, p)

\* s.endswith(p)
endswith(s, p) ==
    /\ Len(p) <= Len(s)
    /\ SubSeq(s, Len(s) - Len(p) + 1, Len(s)) = p

\* p in s
str_in(p, s) == \E i \in 1..(Len(s) + 1) : startswith_at(s, i, p)

upper_char(c) ==
    IF \E k \in 1..Len(ascii_lowercase) : ascii_lowercase[k] = c
    THEN ascii_uppercase[CHOOSE k \in 1..Len(ascii_lowercase) :
                            ascii_lowercase[k] = c]
    ELSE c

\* a bug: the configuration name is not upper-cased
str_not_upper(s) == s

\* s.upper()
str_upper(s) == [i \in 1..Len(s) |-> upper_char(s[i])]

\* sep.join(xs)
RECURSIVE str_join(_, _)
str_join(sep, xs) ==
    IF xs = <<>> THEN <<>>
    ELSE IF Len(xs) = 1 THEN xs[1]
    ELSE xs[1] \o sep \o str_join(sep, Tail(xs))

\* "{}".format(n) of an int n >= 0
RECURSIVE int_to_str(_)
int_to_str(n) ==
    IF n < Len(digits) THEN <<digits[n + 1]>>
    ELSE int_to_str(n \div Len(digits)) \o <<digits[(n % Len(digits)) + 1]>>

\* the index after the longest run of non-whitespace that starts at i: \S+
RECURSIVE match_nonspace(_, _)
match_nonspace(s, i) ==
    IF i <= Len(s) /\ s[i] \notin whitespace
    THEN match_nonspace(s, i + 1)
    ELSE i

\* re.findall(r"-arch (\S+)", s), scanning from index i: the leftmost match
\* is taken, its group is kept and the scan resumes after the match
RECURSIVE re_findall_from(_, _)
re_findall_from(s, i) ==
    IF i > Len(s) THEN <<>>
    ELSE LET g == i + Len(s_arch_sp)
         IN  IF /\ startswith_at(s, i, s_arch_sp)
                /\ match_nonspace(s, g) > g
             THEN <<SubSeq(s, g, match_nonspace(s, g) - 1)>>
                      \o re_findall_from(s, match_nonspace(s, g))
             ELSE re_findall_from(s, i + 1)

re_findall_arch(s) == re_findall_from(s, 1)

(***************************************************************************)
(* PLAT_TO_CMAKE: distutils Windows platform specifiers to CMake -A        *)
(* arguments.                                                              *)
(***************************************************************************)
PLAT_TO_CMAKE ==
    (s_win32 :> s_Win32) @@ (s_win_amd64 :> s_x64)
        @@ (s_win_arm32 :> s_ARM) @@ (s_win_arm64 :> s_ARM64)

\* PLAT_TO_CMAKE[plat] raises KeyError
plat_lookup_raises(plat) == plat \notin DOMAIN PLAT_TO_CMAKE

\* a bug: win-amd64 is given the 32-bit architecture
plat_lookup_amd64_as_win32(plat) ==
    IF plat = s_win_amd64 THEN s_Win32 ELSE PLAT_TO_CMAKE[plat]

\* the value of PLAT_TO_CMAKE[plat]
plat_lookup(plat) == PLAT_TO_CMAKE[plat]

(***************************************************************************)
(* State.                                                                  *)
(***************************************************************************)
VARIABLES
    command,            \* the setup.py command that runs
    sys_platform,       \* sys.platform
    compiler_type,      \* self.compiler.compiler_type
    plat_name,          \* self.plat_name
    debug,              \* self.debug
    parallel,           \* self.parallel; 0 stands for None
    environ,            \* os.environ: name -> [set, val]
    ninja_installed,    \* whether `import ninja` succeeds
    ext_dir,            \* abspath(dirname(self.get_ext_fullpath(ext.name)))
    build_temp_exists,  \* os.path.exists(self.build_temp)
    cpplibdir,          \* self.cpplibdir of the test command
    use_omp,            \* the outcome of reading USE_OMP
    cmake_args,         \* the configure-phase arguments
    build_args,         \* the build-phase arguments
    calls,              \* the subprocess calls issued, in order
    returncodes,        \* the exit statuses of the calls that returned
    stdout,             \* the lines printed
    py_tests,           \* the outcome of super().run() of a test command
    error,              \* the exception that ended the command
    pc                  \* the command's position

vars == <<command, sys_platform, compiler_type, plat_name, debug, parallel,
          environ, ninja_installed, ext_dir, build_temp_exists, cpplibdir,
          use_omp, cmake_args, build_args, calls, returncodes, stdout,
          py_tests, error, pc>>

inputs == <<command, sys_platform, compiler_type, plat_name, debug, parallel,
            environ, ninja_installed, ext_dir, cpplibdir>>

(***************************************************************************)
(* The inputs of a run.                                                    *)
(***************************************************************************)
Unset == [set |-> FALSE, val |-> s_empty]
SetTo(v) == [set |-> TRUE, val |-> v]

\* os.environ.get(name, default), os.getenv(name, default)
os_environ_get(name, default) ==
    IF environ[name].set THEN environ[name].val ELSE default

\* the hosts: sys.platform, the compiler family and the platform specifier
Hosts ==
    {[sys_platform |-> s_linux, compiler_type |-> "unix",
      plat_name |-> s_linux_x86_64],
     [sys_platform |-> s_darwin, compiler_type |-> "unix",
      plat_name |-> s_macosx],
     [sys_platform |-> s_win32, compiler_type |-> "mingw32",
      plat_name |-> s_win_amd64]}
    \cup {[sys_platform |-> s_win32, compiler_type |-> "msvc", plat_name |-> p] :
            p \in {s_win32, s_win_amd64, s_win_arm32, s_win_arm64, s_win_ia64}}

\* the values of CMAKE_GENERATOR: the NMake and Visual Studio generators
\* exist on Windows only
Generators(platform) ==
    IF platform = s_win32
    THEN {s_Ninja, s_gen_NMake, s_gen_VS, s_gen_VS_Win64, s_gen_VS_ARM}
    ELSE {s_Ninja}

ArchValues == {s_x86_64, s_arm64}

\* the lists of at most n architecture values
RECURSIVE ArchLists(_)
ArchLists(n) ==
    IF n = 0 THEN {<<>>}
    ELSE ArchLists(n - 1)
         \cup {Append(l, a) : l \in ArchLists(n - 1), a \in ArchValues}

\* the architecture lists put into ARCHFLAGS: every list on macOS, whose
\* build harnesses set the variable, and one list elsewhere
ArchListsOn(platform) ==
    IF platform = s_darwin THEN ArchLists(MaxArchs) ELSE {<<s_x86_64>>}

\* the ARCHFLAGS string that names the architectures of l: "-arch a -arch b"
arch_flags(l) == str_join(s_space, [i \in 1..Len(l) |-> s_arch_sp \o l[i]])

ExitCodes == 0..MaxExit

\* os.path.sep
os_path_sep == IF sys_platform = s_win32 THEN s_backslash ELSE s_slash

ExtDirs(platform) ==
    IF platform = s_win32 THEN {s_nt_dir, s_nt_root}
    ELSE {s_posix_dir, s_posix_root}

Init ==
    /\ command \in {"build_ext", "test", "pytest"}
    /\ \E h \in (IF command = "build_ext" THEN Hosts
                 ELSE {x \in Hosts : x.sys_platform = s_linux}) :
          /\ sys_platform = h.sys_platform
          /\ compiler_type = h.compiler_type
          /\ plat_name = h.plat_name
    /\ debug \in (IF command = "build_ext" THEN BOOLEAN ELSE {FALSE})
    /\ parallel \in (IF command = "build_ext" THEN 0..MaxJobs ELSE {0})
    /\ \E gen \in (IF command = "build_ext"
                   THEN {Unset} \cup {SetTo(g) : g \in Generators(sys_platform)}
                   ELSE {Unset}),
          omp \in (IF command = "build_ext"
                   THEN {Unset, SetTo(s_True), SetTo(s_False), SetTo(s_yes)}
                   ELSE {Unset}),
          arch \in (IF command = "build_ext"
                    THEN {Unset} \cup {SetTo(arch_flags(l)) :
                                          l \in ArchListsOn(sys_platform)}
                    ELSE {Unset}),
          level \in (IF command = "build_ext"
                     THEN {Unset, SetTo(s_one)} ELSE {Unset}) :
          environ = [CMAKE_GENERATOR |-> gen, USE_OMP |-> omp,
                     ARCHFLAGS |-> arch, CMAKE_BUILD_PARALLEL_LEVEL |-> level]
    /\ ninja_installed \in (IF command = "build_ext" THEN BOOLEAN ELSE {FALSE})
    /\ ext_dir \in (IF command = "build_ext" THEN ExtDirs(sys_platform)
                    ELSE {s_posix_dir})
    /\ build_temp_exists \in (IF command = "build_ext" THEN BOOLEAN
                              ELSE {TRUE})
    /\ cpplibdir \in (IF command = "test" THEN {s_temp_a, s_temp_b}
                      ELSE {s_temp_a})
    /\ use_omp = "unread"
    /\ cmake_args = <<>>
    /\ build_args = <<>>
    /\ calls = <<>>
    /\ returncodes = <<>>
    /\ stdout = <<>>
    /\ py_tests = "not run"
    /\ error = "none"
    /\ pc = "NotStarted"

(***************************************************************************)
(* CMakeBuild.build_extension.                                             *)
(***************************************************************************)
sys_executable == s_python
get_version == s_version
sourcedir == s_src
build_temp == s_build_temp

\* extdir, with the trailing separator added when it is missing
extdir ==
    IF endswith(ext_dir, os_path_sep) THEN ext_dir ELSE ext_dir \o os_path_sep

cfg == IF debug THEN s_Debug ELSE s_Release

cmake_generator == os_environ_get("CMAKE_GENERATOR", s_empty)

base_cmake_args ==
    << s_D_LIBRARY_OUTPUT_DIRECTORY \o extdir,
       s_D_PYTHON_EXECUTABLE \o sys_executable,
       s_D_PYQUBO_VERSION_INFO \o get_version,
       s_D_BUILD_TYPE \o cfg >>

is_msvc == compiler_type = "msvc"

\* not MSVC: Ninja is chosen when no generator is set and ninja imports
ninja_args ==
    IF ~is_msvc /\ cmake_generator = s_empty /\ ninja_installed
    THEN <<s_GNinja>>
    ELSE <<>>

\* a bug: Ninja is not counted as a single-config generator
single_config_nmake_only(gen) == str_in(s_NMake, gen)

single_config(gen) == \E x \in {s_NMake, s_Ninja} : str_in(x, gen)

contains_arch(gen) == \E x \in {s_ARM, s_Win64} : str_in(x, gen)

\* MSVC: whether the arch is specified with -A
specifies_arch(gen) == ~single_config(gen) /\ ~contains_arch(gen)

arch_args ==
    IF is_msvc /\ specifies_arch(cmake_generator)
    THEN <<s_A, plat_lookup(plat_name)>>
    ELSE <<>>

\* MSVC, multi-config generator: the per-configuration output directory
multi_config_args ==
    IF is_msvc /\ ~single_config(cmake_generator)
    THEN << s_D_LIBRARY_OUTPUT_DIRECTORY_ \o str_upper(cfg) \o s_eq \o extdir >>
    ELSE <<>>

config_build_args ==
    IF is_msvc /\ ~single_config(cmake_generator)
    THEN <<s_config, cfg>>
    ELSE <<>>

is_darwin == startswith(sys_platform, s_darwin)

\* {'True': True, 'False': False}
USE_OMP_TABLE == (s_True :> TRUE) @@ (s_False :> FALSE)

USE_OMP_value == os_environ_get("USE_OMP", s_False)

\* the table lookup raises KeyError
use_omp_raises(v) == v \notin DOMAIN USE_OMP_TABLE

\* a bug: the two booleans of the table are swapped
use_omp_lookup_swapped(v) == ~USE_OMP_TABLE[v]

\* the value of the table lookup
use_omp_lookup(v) == USE_OMP_TABLE[v]

archs == re_findall_arch(os_environ_get("ARCHFLAGS", s_empty))

osx_arch_args ==
    IF is_darwin /\ archs # <<>>
    THEN << s_D_OSX_ARCHITECTURES \o str_join(s_semicolon, archs) >>
    ELSE <<>>

\* a bug: CMAKE_BUILD_PARALLEL_LEVEL is not looked at
gives_jobs_ignoring_level(level_set, jobs) == jobs # 0

\* -j is given when CMAKE_BUILD_PARALLEL_LEVEL is not set and self.parallel
\* is truthy
gives_jobs(level_set, jobs) == ~level_set /\ jobs # 0

job_args ==
    IF gives_jobs(environ["CMAKE_BUILD_PARALLEL_LEVEL"].set, parallel)
    THEN << s_j \o int_to_str(parallel) >>
    ELSE <<>>

\* a bug: the exit status is dropped, as subprocess.call does
check_call_ignores(code) == FALSE

\* subprocess.check_call raises CalledProcessError on this exit status
check_call_raises(code) == code # 0

Call(argv, cwd, shell) == [argv |-> argv, cwd |-> cwd, shell |-> shell]

configure_call == Call(<<s_cmake, sourcedir>> \o cmake_args', build_temp, FALSE)

build_call == Call(<<s_cmake, s_build_opt, s_dot>> \o build_args, build_temp, FALSE)

\* an exception leaves build_extension: the locals are gone
Raise(exc) ==
    /\ error' = exc
    /\ pc' = "Failed"
    /\ UNCHANGED <<cmake_args, build_args, calls, returncodes,
                   build_temp_exists>>

\* lines 33-114: the arguments are computed, the scratch directory is made
\* and the configure call is issued
BuildExtension ==
    /\ command = "build_ext"
    /\ pc = "NotStarted"
    /\ IF /\ is_msvc /\ specifies_arch(cmake_generator)
          /\ plat_lookup_raises(plat_name)
       THEN /\ Raise("KeyError: plat_name")
            /\ use_omp' = use_omp
       ELSE IF is_darwin /\ use_omp_raises(USE_OMP_value)
       THEN /\ Raise("KeyError: USE_OMP")
            /\ use_omp' = "KeyError"
       ELSE IF is_darwin /\ ~use_omp_lookup(USE_OMP_value)
       THEN \* cmake_wargs += [...]: cmake_wargs is not bound
            /\ Raise("UnboundLocalError: cmake_wargs")
            /\ use_omp' = "False"
       ELSE /\ use_omp' = IF is_darwin THEN "True" ELSE "unread"
            /\ cmake_args' = base_cmake_args \o ninja_args \o arch_args
                                \o multi_config_args \o osx_arch_args
            /\ build_args' = config_build_args \o job_args
            /\ build_temp_exists' = TRUE
            /\ calls' = Append(calls, configure_call)
            /\ pc' = "Configuring"
            /\ UNCHANGED <<returncodes, error>>
    /\ UNCHANGED <<inputs, stdout, py_tests>>

\* lines 112-117: the configure call returns; the build call is issued
ConfigureReturns ==
    /\ command = "build_ext"
    /\ pc = "Configuring"
    /\ \E code \in ExitCodes :
          /\ returncodes' = Append(returncodes, code)
          /\ IF check_call_raises(code)
             THEN /\ error' = "CalledProcessError"
                  /\ pc' = "Failed"
                  /\ calls' = calls
             ELSE /\ calls' = Append(calls, build_call)
                  /\ pc' = "Building"
                  /\ error' = error
    /\ UNCHANGED <<inputs, build_temp_exists, use_omp, cmake_args, build_args,
                   stdout, py_tests>>

\* lines 115-117: the build call returns
BuildReturns ==
    /\ command = "build_ext"
    /\ pc = "Building"
    /\ \E code \in ExitCodes :
          /\ returncodes' = Append(returncodes, code)
          /\ IF check_call_raises(code)
             THEN /\ error' = "CalledProcessError"
                  /\ pc' = "Failed"
             ELSE /\ pc' = "Done"
                  /\ error' = error
    /\ UNCHANGED <<inputs, build_temp_exists, use_omp, cmake_args, build_args,
                   calls, stdout, py_tests>>

(***************************************************************************)
(* GoogleTestCommand.run and PyTestCommand.run.                            *)
(***************************************************************************)
\* os.path.join(a, b) for a relative b and a non-empty a
os_path_join(a, b) ==
    IF endswith(a, os_path_sep) THEN a \o b ELSE a \o os_path_sep \o b

\* TestCommand.run raises when the Python tests fail
test_run_raises(outcome) == outcome = "failed"

\* subprocess.call returns the exit status and raises nothing; run drops it
call_raises(code) == FALSE

\* lines 139-144: the Python tests run, then make pyqubo_test is issued
GoogleTestRun ==
    /\ command = "test"
    /\ pc = "NotStarted"
    /\ \E outcome \in {"passed", "failed"} :
          /\ py_tests' = outcome
          /\ IF test_run_raises(outcome)
             THEN /\ error' = "DistutilsError"
                  /\ pc' = "Failed"
                  /\ UNCHANGED <<stdout, calls>>
             ELSE /\ stdout' = stdout \o <<s_banner,
                                          os_path_join(s_build_slash, cpplibdir)>>
                  /\ calls' = Append(calls,
                        Call(<<s_make_pyqubo_test>>,
                             os_path_join(s_build, cpplibdir), TRUE))
                  /\ pc' = "MakingTests"
                  /\ error' = error
    /\ UNCHANGED <<inputs, build_temp_exists, use_omp, cmake_args, build_args,
                   returncodes>>

\* lines 143-146: make returns; the test binary is started
MakeReturns ==
    /\ command = "test"
    /\ pc = "MakingTests"
    /\ \E code \in ExitCodes :
          /\ returncodes' = Append(returncodes, code)
          /\ IF call_raises(code)
             THEN /\ error' = "CalledProcessError"
                  /\ pc' = "Failed"
                  /\ calls' = calls
             ELSE /\ calls' = Append(calls,
                        Call(<<s_tests_pyqubo_test>>,
                             os_path_join(s_build, cpplibdir), TRUE))
                  /\ pc' = "RunningTests"
                  /\ error' = error
    /\ UNCHANGED <<inputs, build_temp_exists, use_omp, cmake_args, build_args,
                   stdout, py_tests>>

\* lines 145-146: the test binary returns and run returns
BinaryReturns ==
    /\ command = "test"
    /\ pc = "RunningTests"
    /\ \E code \in ExitCodes :
          /\ returncodes' = Append(returncodes, code)
          /\ IF call_raises(code)
             THEN /\ error' = "CalledProcessError"
                  /\ pc' = "Failed"
             ELSE /\ pc' = "Done"
                  /\ error' = error
    /\ UNCHANGED <<inputs, build_temp_exists, use_omp, cmake_args, build_args,
                   calls, stdout, py_tests>>

\* lines 148-150: PyTestCommand.run is TestCommand.run
PyTestRun ==
    /\ command = "pytest"
    /\ pc = "NotStarted"
    /\ \E outcome \in {"passed", "failed"} :
          /\ py_tests' = outcome
          /\ IF test_run_raises(outcome)
             THEN /\ error' = "DistutilsError"
                  /\ pc' = "Failed"
             ELSE /\ pc' = "Done"
                  /\ error' = error
    /\ UNCHANGED <<inputs, build_temp_exists, use_omp, cmake_args, build_args,
                   calls, returncodes, stdout>>

\* the exit status of the setup.py process: 0 when the command returned,
\* nonzero when an exception left it, -1 while it runs
exit_status ==
    IF pc = "Done" THEN 0 ELSE IF pc = "Failed" THEN 1 ELSE -1

Next ==
    \/ BuildExtension
    \/ ConfigureReturns
    \/ BuildReturns
    \/ GoogleTestRun
    \/ MakeReturns
    \/ BinaryReturns
    \/ PyTestRun

Spec == Init /\ [][Next]_vars

(***************************************************************************)
(* Properties.                                                             *)
(***************************************************************************)
\* x occurs in the list xs
InSeq(x, xs) == \E i \in DOMAIN xs : xs[i] = x

\* a directly followed by b occurs in the list xs
HasPair(xs, a, b) == \E i \in 1..(Len(xs) - 1) : xs[i] = a /\ xs[i + 1] = b

\* some element of xs starts with the prefix p
HasPrefixed(xs, p) == \E i \in DOMAIN xs : startswith(xs[i], p)

IsConfigureCall(c) == c.argv[1] = s_cmake /\ c.argv[2] = sourcedir

IsBuildCall(c) == SubSeq(c.argv, 1, 3) = <<s_cmake, s_build_opt, s_dot>>

\* the configure call was issued: the arguments were computed
ConfigureIssued == command = "build_ext" /\ calls # <<>>

\* C1: the build call is issued only after the configure call returned 0; a
\* nonzero exit of either call ends the run in Failed, after a nonzero
\* configure exit no build call is issued; each call is issued at most once
\* and Done is reached only when both returned 0.
C1_ConfigureThenBuild ==
    command = "build_ext" =>
        /\ Cardinality({i \in DOMAIN calls : IsConfigureCall(calls[i])}) <= 1
        /\ Cardinality({i \in DOMAIN calls : IsBuildCall(calls[i])}) <= 1
        /\ \A i \in DOMAIN calls :
              IsBuildCall(calls[i]) =>
                  \E j \in 1..(i - 1) :
                      /\ IsConfigureCall(calls[j])
                      /\ j <= Len(returncodes)
                      /\ returncodes[j] = 0
        /\ \A j \in DOMAIN returncodes :
              returncodes[j] # 0 =>
                  /\ pc = "Failed"
                  /\ (IsConfigureCall(calls[j]) =>
                         \A i \in DOMAIN calls : ~IsBuildCall(calls[i]))
        /\ (pc = "Done" =>
               /\ Len(calls) = 2
               /\ IsConfigureCall(calls[1])
               /\ IsBuildCall(calls[2])
               /\ returncodes = <<0, 0>>)

\* C1: the configure call returned nonzero and the run ended in Failed
C1_Witness ==
    /\ command = "build_ext"
    /\ pc = "Failed"
    /\ Len(calls) = 1
    /\ IsConfigureCall(calls[1])
    /\ Len(returncodes) = 1
    /\ returncodes[1] # 0

IsMakeCall(c) == c.argv = <<s_make_pyqubo_test>>

IsTestBinaryCall(c) == c.argv = <<s_tests_pyqubo_test>>

\* the test command has ended
TestEnded == command = "test" /\ pc \in {"Done", "Failed"}

\* C2: when the Python tests fail, the test command still attempts the
\* native phase (make pyqubo_test, then ./tests/pyqubo_test) and its result
\* is failure.
C2_NativePhaseAfterFailure ==
    (TestEnded /\ py_tests = "failed") =>
        /\ \E i \in DOMAIN calls : IsMakeCall(calls[i])
        /\ \E i \in DOMAIN calls : IsTestBinaryCall(calls[i])
        /\ exit_status # 0

\* C3: when the Python tests pass and make pyqubo_test or the test binary
\* exits nonzero, the test command's exit status is nonzero.
C3_NativeFailureSurfaced ==
    (/\ TestEnded
     /\ py_tests = "passed"
     /\ \E i \in DOMAIN returncodes : returncodes[i] # 0)
        => exit_status # 0

\* OpenMP is disabled: USE_OMP is unset or is 'False'
OpenMPDisabled == ~environ["USE_OMP"].set \/ environ["USE_OMP"].val = s_False

\* C4: on macOS with OpenMP disabled, the configure call is issued and
\* carries -DUSE_OMP=No.
C4_OpenMPDefine ==
    (/\ command = "build_ext"
     /\ pc # "NotStarted"
     /\ is_darwin
     /\ OpenMPDisabled)
        => /\ InSeq(s_D_USE_OMP_No, cmake_args)
           /\ calls # <<>>
           /\ IsConfigureCall(calls[1])
           /\ InSeq(s_D_USE_OMP_No, calls[1].argv)

\* what reading USE_OMP gives for each value of the variable
UseOmpResolved ==
    LET v == environ["USE_OMP"]
    IN  /\ (v.set /\ v.val = s_True) =>
               (use_omp = "True" /\ error # "KeyError: USE_OMP")
        /\ (v.set /\ v.val = s_False) =>
               (use_omp = "False" /\ error # "KeyError: USE_OMP")
        /\ (v.set /\ v.val \notin {s_True, s_False}) =>
               /\ use_omp = "KeyError"
               /\ error = "KeyError: USE_OMP"
               /\ pc = "Failed"
               /\ calls = <<>>

\* C5 as stated: in every build, 'True' and 'False' resolve to their
\* booleans and any other value of USE_OMP fails the build before a
\* subprocess is launched.
C5_EveryHost ==
    (command = "build_ext" /\ pc # "NotStarted")
        => UseOmpResolved

\* C5 as amended: the same on macOS, the only host on which USE_OMP is read.
C5_OnDarwin ==
    (command = "build_ext" /\ pc # "NotStarted" /\ is_darwin)
        => UseOmpResolved

\* C5: macOS, USE_OMP is neither 'True' nor 'False', the build failed
C5_Witness ==
    /\ command = "build_ext"
    /\ is_darwin
    /\ environ["USE_OMP"] = SetTo(s_yes)
    /\ pc = "Failed"

\* the generator is consulted for an architecture: MSVC, and its name holds
\* none of NMake, Ninja, ARM, Win64
ArchConsulted ==
    /\ compiler_type = "msvc"
    /\ ~str_in(s_NMake, cmake_generator)
    /\ ~str_in(s_Ninja, cmake_generator)
    /\ ~str_in(s_ARM, cmake_generator)
    /\ ~str_in(s_Win64, cmake_generator)

\* C6: each of the four platform identifiers gives its fixed architecture
\* argument; an identifier outside the table, when consulted, fails the
\* build with KeyError before the configure or build call is issued.
C6_PlatformResolver ==
    (command = "build_ext" /\ pc # "NotStarted" /\ ArchConsulted) =>
        /\ plat_name = s_win32 => HasPair(cmake_args, s_A, s_Win32)
        /\ plat_name = s_win_amd64 => HasPair(cmake_args, s_A, s_x64)
        /\ plat_name = s_win_arm32 => HasPair(cmake_args, s_A, s_ARM)
        /\ plat_name = s_win_arm64 => HasPair(cmake_args, s_A, s_ARM64)
        /\ plat_name \notin {s_win32, s_win_amd64, s_win_arm32, s_win_arm64} =>
               /\ error = "KeyError: plat_name"
               /\ pc = "Failed"
               /\ calls = <<>>
               /\ ~InSeq(s_A, cmake_args)

\* C6: an unknown identifier was consulted and the build failed
C6_Witness ==
    /\ command = "build_ext"
    /\ ArchConsulted
    /\ plat_name = s_win_ia64
    /\ error = "KeyError: plat_name"

\* 'RELEASE'
s_RELEASE == <<"R", "E", "L", "E", "A", "S", "E">>

\* '-DCMAKE_BUILD_TYPE=Release'
s_D_BUILD_TYPE_Release ==
    <<"-", "D", "C", "M", "A", "K", "E", "_", "B", "U", "I", "L", "D", "_",
      "T", "Y", "P", "E", "=", "R", "e", "l", "e", "a", "s", "e">>

\* C7: in every run that issues the configure call on MSVC, -A <arch> is
\* among the configure arguments exactly when the
\* generator name holds none of NMake, Ninja, ARM, Win64; a generator named
\* with Ninja gets none; with no generator set, win-amd64 and a release
\* build the configure call has -DCMAKE_BUILD_TYPE=Release and -A x64.
C7_ArchArgument ==
    (ConfigureIssued /\ compiler_type = "msvc") =>
        /\ InSeq(s_A, cmake_args) <=> ArchConsulted
        /\ ArchConsulted =>
               HasPair(calls[1].argv, s_A, PLAT_TO_CMAKE[plat_name])
        /\ str_in(s_Ninja, cmake_generator) => ~InSeq(s_A, calls[1].argv)
        /\ (/\ cmake_generator = s_empty
            /\ plat_name = s_win_amd64
            /\ ~debug)
               => /\ InSeq(s_D_BUILD_TYPE_Release, calls[1].argv)
                  /\ HasPair(calls[1].argv, s_A, s_x64)

\* C7: MSVC, no generator set, win-amd64, release: the configure call is out
C7_Witness ==
    /\ ConfigureIssued
    /\ compiler_type = "msvc"
    /\ ~environ["CMAKE_GENERATOR"].set
    /\ plat_name = s_win_amd64
    /\ ~debug
    /\ pc = "Configuring"

\* 'DEBUG'
s_DEBUG == <<"D", "E", "B", "U", "G">>

\* MSVC with a generator whose name holds neither NMake nor Ninja
MultiConfigMSVC ==
    /\ compiler_type = "msvc"
    /\ ~str_in(s_NMake, cmake_generator)
    /\ ~str_in(s_Ninja, cmake_generator)

\* C8: in every run that issues the configure call: on MSVC with a
\* multi-config generator the configure arguments hold
\* -DCMAKE_LIBRARY_OUTPUT_DIRECTORY_<DEBUG|RELEASE>=<extdir> and the build
\* arguments hold --config <Debug|Release>; otherwise neither is emitted.
C8_MultiConfig ==
    ConfigureIssued =>
        IF MultiConfigMSVC
        THEN /\ InSeq(s_D_LIBRARY_OUTPUT_DIRECTORY_
                        \o (IF debug THEN s_DEBUG ELSE s_RELEASE)
                        \o s_eq \o extdir, calls[1].argv)
             /\ endswith(extdir, os_path_sep)
             /\ HasPair(build_args, s_config,
                        IF debug THEN s_Debug ELSE s_Release)
             /\ \A i \in DOMAIN calls :
                   IsBuildCall(calls[i]) =>
                       HasPair(calls[i].argv, s_config,
                               IF debug THEN s_Debug ELSE s_Release)
        ELSE /\ ~HasPrefixed(calls[1].argv, s_D_LIBRARY_OUTPUT_DIRECTORY_)
             /\ ~InSeq(s_config, build_args)
             /\ \A i \in DOMAIN calls : ~InSeq(s_config, calls[i].argv)

\* C8: MSVC, a Visual Studio generator, a debug build: the build call is out
C8_Witness ==
    /\ ConfigureIssued
    /\ MultiConfigMSVC
    /\ debug
    /\ pc = "Building"
    /\ IsBuildCall(calls[2])

\* USE_OMP holds a value the build accepts
OpenMPValid ==
    ~environ["USE_OMP"].set \/ environ["USE_OMP"].val \in {s_True, s_False}

\* C9: on macOS, whatever the OpenMP setting, the architectures named in
\* ARCHFLAGS are extracted in order; the configure arguments hold
\* -DCMAKE_OSX_ARCHITECTURES=<a;b> when there is one and no such define
\* when there is none.
C9_OsxArchitectures ==
    (/\ command = "build_ext"
     /\ pc # "NotStarted"
     /\ is_darwin
     /\ OpenMPValid)
        => \A l \in ArchLists(MaxArchs) :
              os_environ_get("ARCHFLAGS", s_empty) = arch_flags(l) =>
                  /\ archs = l
                  /\ l # <<>> =>
                        InSeq(s_D_OSX_ARCHITECTURES \o str_join(s_semicolon, l),
                              cmake_args)
                  /\ l = <<>> =>
                        ~HasPrefixed(cmake_args, s_D_OSX_ARCHITECTURES)

\* the number written by the decimal digits ds
RECURSIVE str_to_int(_)
str_to_int(ds) ==
    IF ds = <<>> THEN 0
    ELSE str_to_int(SubSeq(ds, 1, Len(ds) - 1)) * Len(digits)
             + (CHOOSE k \in 0..(Len(digits) - 1) : digits[k + 1] = ds[Len(ds)])

\* xs holds exactly one -j<n>
HasJobCount(xs, n) ==
    /\ Cardinality({i \in DOMAIN xs : startswith(xs[i], s_j)}) = 1
    /\ \E i \in DOMAIN xs :
          /\ startswith(xs[i], s_j)
          /\ Len(xs[i]) > Len(s_j)
          /\ str_to_int(SubSeq(xs[i], Len(s_j) + 1, Len(xs[i]))) = n

====
